---- MODULE Spec2Model ----
(***************************************************************************)
(* Model of the NFC treasure hunt web application (app.py, reset_db.py).   *)
(*                                                                         *)
(* State: the players table of the SQLite store, the session cookie of     *)
(* every browser, the wall clock behind CURRENT_TIMESTAMP, the counter     *)
(* that stands for uuid4(), and the requests in flight.  Every request     *)
(* handler is cut at its database statements: one step of the model is one *)
(* statement (a SELECT, or an INSERT/UPDATE/DELETE with its commit)        *)
(* together with the Python code that runs before it since the previous    *)
(* statement.  Requests of different slots interleave at those points,     *)
(* because every request has its own connection and the handlers take no   *)
(* lock and open no transaction around a read and the write that follows.  *)
(*                                                                         *)
(* SQL NULL / Python None is the string NULL for text columns and the      *)
(* number NullTime for DATETIME columns; the clock starts above NullTime.  *)
(* A name is a sequence of tokens, a token being a word or the blank " ".  *)
(***************************************************************************)
EXTENDS Integers, Sequences, FiniteSets, TLC

\* ---------------------------------------------------------------- bounds
NumTags     == 2    \* length of the clue chain of clues.yaml
MaxPlayers  == 2    \* number of uuid4() identifiers ever issued
MaxClock    == 2    \* last second the clock reaches
NumBrowsers == 1    \* browsers (cookie jars)
NumSlots    == 2    \* requests in flight at the same time
BoardRows   == 14   \* rows of the largest table a leaderboard is asked of
PatternLen  == 4    \* rows after which such a table repeats

\* ------------------------------------------------------------- constants
NULL     == "NULL"
NullTime == 0
NoId     == 0
FINISHED == "FINISHED"
ADMIN_PASSWORD == "bruinvis"
LeaderboardLimit == 10

TagNames == <<"tag1", "tag2", "tag3", "tag4", "tag5">>
Tags     == {TagNames[i] : i \in 1..NumTags}

\* clues.yaml as yaml.safe_load returns it: tag -> next_tag, in file order;
\* the last entry has no next tag.
CLUES == [t \in Tags |->
            LET i == CHOOSE j \in 1..NumTags : TagNames[j] = t
            IN  [next_tag |-> IF i < NumTags THEN TagNames[i + 1] ELSE NULL]]

INITIAL_TAG == TagNames[1]

DUTCH_PROFANITY_LIST == {"kut", "drol"}

Browsers == 1..NumBrowsers
Slots    == 1..NumSlots
Ids      == 1..MaxPlayers

\* Path segments a scan request may carry: every tag of the chain, a tag
\* that clues.yaml does not know, and the sentinel itself.
ScanInputs == Tags \cup {"ghost", FINISHED}

\* Values of the player_name / new_name form field; a GET carries none.
FormInputs == {<<" ">>, <<"ann">>, <<" ", "bob">>, <<"kut">>}
\* Values of the password form field: the password and one that differs from
\* it in the case of a letter.
Passwords  == {ADMIN_PASSWORD, "Bruinvis"}

VARIABLES players, session, now, nextId, req

vars == <<players, session, now, nextId, req>>

\* ------------------------------------------------------------ pure parts
\* str.strip(): drop the blanks at both ends.
RECURSIVE LStrip(_)
LStrip(s) == IF s # <<>> /\ Head(s) = " " THEN LStrip(Tail(s)) ELSE s

RECURSIVE RStrip(_)
RStrip(s) == IF s # <<>> /\ s[Len(s)] = " "
             THEN RStrip(SubSeq(s, 1, Len(s) - 1)) ELSE s

Strip(s) == RStrip(LStrip(s))

\* profanity.contains_profanity: some word of the text is on the list.
contains_profanity(s) == \E i \in DOMAIN s : s[i] \in DUTCH_PROFANITY_LIST

\* A freshly inserted row: only player_id and player_name are given.
NewRow(name) == [player_name      |-> name,
                 current_clue_tag |-> NULL,
                 last_scan_time   |-> NullTime,
                 start_time       |-> NullTime,
                 end_time         |-> NullTime]

EmptySession == [player_id |-> NoId, player_name |-> <<>>, admin_logged_in |-> FALSE]

\* A request: what was asked (kind, browser, method, tag, name, target,
\* password), the handler's position and local variables (pc, player_id,
\* duration), what it did to its session (cleared, set) and what it returned
\* (outcome, rank, rows: the player_ids of the rows a listing shows).
IdleReq == [kind |-> "idle", pc |-> "idle", browser |-> 0, player_id |-> NoId,
            cleared |-> FALSE, set |-> "none",
            method |-> "GET", tag |-> NULL, name |-> <<>>, target |-> NoId,
            password |-> "",
            outcome |-> "none", duration |-> 0, rank |-> 0, rows |-> <<>>]

\* The handler returns with this outcome.
Done(q, out) == [q EXCEPT !.pc = "done", !.outcome = out]

\* session.clear()
Clear(q) == [q EXCEPT !.cleared = TRUE, !.set = "none"]

\* Slot r takes the next request: it is the first free slot, and no returned
\* request is waiting for its outcome to be read.
Free(r) ==
    /\ req[r].pc = "idle"
    /\ \A o \in Slots : req[o].pc # "done" /\ (o < r => req[o].pc # "idle")

\* A request arrives in slot r from browser b; player_id is
\* session.get('player_id').
Arrive(r, b, kind) ==
    [IdleReq EXCEPT !.kind = kind, !.browser = b,
                    !.player_id = session[b].player_id]

\* The cookie c after the handler's operations on the session.
Cookie(q, c) ==
    LET c1 == IF q.cleared THEN EmptySession ELSE c
    IN  CASE q.set = "player" -> [c1 EXCEPT !.player_id = q.player_id,
                                            !.player_name = q.name]
          [] q.set = "admin"  -> [c1 EXCEPT !.admin_logged_in = TRUE]
          [] OTHER            -> c1

\* What is left of a request once its handler returned: what was asked and
\* the outcome.
Returned(q) == [IdleReq EXCEPT !.kind = q.kind, !.pc = "done", !.browser = q.browser,
                               !.player_id = q.player_id, !.method = q.method,
                               !.tag = q.tag, !.name = q.name, !.target = q.target,
                               !.password = q.password,
                               !.outcome = q.outcome, !.rank = q.rank,
                               !.rows = q.rows]

\* Slot r continues as q.  When the handler returned, the response carries
\* the session back into the browser's cookie; the returned request stays in
\* its slot, for its outcome to be read, when no other request is in flight,
\* and the slot is free at once otherwise.
Settle(r, q) ==
    IF q.pc = "done"
    THEN /\ req' = [req EXCEPT ![r] =
                     IF \A o \in Slots \ {r} : req[o].pc = "idle"
                     THEN Returned(q) ELSE IdleReq]
         /\ session' = [session EXCEPT ![q.browser] = Cookie(q, @)]
    ELSE /\ req' = [req EXCEPT ![r] = q]
         /\ UNCHANGED session

\* ------------------------------------------------------- SQL statements
\* Mutant of InsertPlayer: the INSERT also gives the first tag.
InsertPlayerStarted(P, id, name) ==
    [i \in DOMAIN P \cup {id} |->
        IF i = id THEN [NewRow(name) EXCEPT !.current_clue_tag = INITIAL_TAG] ELSE P[i]]

\* INSERT INTO players (player_id, player_name) VALUES (?, ?)
InsertPlayer(P, id, name) ==
    [i \in DOMAIN P \cup {id} |-> IF i = id THEN NewRow(name) ELSE P[i]]

\* Mutant of StartUpdate: the UPDATE also stamps last_scan_time.
StartUpdateStampsScan(P, id, t) ==
    [i \in DOMAIN P |-> IF i = id
        THEN [P[i] EXCEPT !.start_time = t, !.last_scan_time = t,
                          !.current_clue_tag = INITIAL_TAG]
        ELSE P[i]]

\* Mutant of StartUpdate: the UPDATE sets start_time only.
StartUpdateTimeOnly(P, id, t) ==
    [i \in DOMAIN P |-> IF i = id THEN [P[i] EXCEPT !.start_time = t] ELSE P[i]]

\* UPDATE players SET start_time = CURRENT_TIMESTAMP, current_clue_tag = ?
\*   WHERE player_id = ?
StartUpdate(P, id, t) ==
    [i \in DOMAIN P |-> IF i = id
        THEN [P[i] EXCEPT !.start_time = t, !.current_clue_tag = INITIAL_TAG]
        ELSE P[i]]

\* Mutant of AdvanceUpdate: the UPDATE forgets the tag.
AdvanceUpdateKeepsTag(P, id, next, t) ==
    [i \in DOMAIN P |-> IF i = id THEN [P[i] EXCEPT !.last_scan_time = t] ELSE P[i]]

\* UPDATE players SET current_clue_tag = ?, last_scan_time = CURRENT_TIMESTAMP
\*   WHERE player_id = ?
AdvanceUpdate(P, id, next, t) ==
    [i \in DOMAIN P |-> IF i = id
        THEN [P[i] EXCEPT !.current_clue_tag = next, !.last_scan_time = t]
        ELSE P[i]]

\* Mutant of FinalUpdate: the UPDATE has no WHERE clause.
FinalUpdateAllRows(P, id, t) ==
    [i \in DOMAIN P |-> [P[i] EXCEPT !.current_clue_tag = FINISHED, !.end_time = t,
                                     !.last_scan_time = t]]

\* UPDATE players SET current_clue_tag = 'FINISHED', end_time = CURRENT_TIMESTAMP,
\*   last_scan_time = CURRENT_TIMESTAMP WHERE player_id = ?
FinalUpdate(P, id, t) ==
    [i \in DOMAIN P |-> IF i = id
        THEN [P[i] EXCEPT !.current_clue_tag = FINISHED, !.end_time = t,
                          !.last_scan_time = t]
        ELSE P[i]]

\* DELETE FROM players WHERE player_id = ?
DeletePlayer(P, id) == [i \in DOMAIN P \ {id} |-> P[i]]

\* UPDATE players SET player_name = ? WHERE player_id = ?
RenameUpdate(P, id, name) ==
    [i \in DOMAIN P |-> IF i = id THEN [P[i] EXCEPT !.player_name = name] ELSE P[i]]

\* SELECT player_id FROM players WHERE player_name = ?   (a row exists)
NameTaken(P, name) == \E i \in DOMAIN P : P[i].player_name = name

\* Mutant of NameTakenByOther: the SELECT finds no row.
NameTakenByNobody(P, name, id) == FALSE

\* SELECT player_id FROM players WHERE player_name = ? AND player_id != ?
NameTakenByOther(P, name, id) ==
    \E i \in DOMAIN P : i # id /\ P[i].player_name = name

\* JULIANDAY(end_time) - JULIANDAY(start_time), in seconds; defined only for
\* rows whose two times are non-NULL.
Duration(row) == row.end_time - row.start_time

\* JULIANDAY() returns a double that counts days (about 2.46 million of
\* them), so the difference of two of them carries a rounding error of some
\* ten microseconds, while the bound of the rank query is the exact number
\* of seconds divided by 86400.0 in Python.  Durations that differ by a
\* second or more compare as the exact ones do; a duration equal to the bound
\* falls on either side of it, as the two timestamps of the row decide (a
\* sole finisher whose times are 03:23:06 and 04:30:44 of one day compares
\* below its own duration); only equal timestamps compare exactly, 0 < 0.
\* Roundings(P, d): the possible sets of <<start_time, end_time>> whose
\* difference of doubles falls below the bound d.
Roundings(P, d) ==
    SUBSET {<<P[i].start_time, P[i].end_time>> : i \in
              {j \in DOMAIN P : /\ P[j].end_time # NullTime
                                /\ P[j].start_time # NullTime
                                /\ P[j].end_time # P[j].start_time
                                /\ Duration(P[j]) = d}}

\* (JULIANDAY(end_time) - JULIANDAY(start_time)) < ?
JulianLess(row, d, low) ==
    \/ Duration(row) < d
    \/ Duration(row) = d /\ <<row.start_time, row.end_time>> \in low

\* Mutant of RankCount: the comparison is <= instead of <.
RankCountOrEqual(P, d, low) ==
    Cardinality({i \in DOMAIN P : /\ P[i].end_time # NullTime
                                  /\ P[i].start_time # NullTime
                                  /\ Duration(P[i]) <= d})

\* SELECT COUNT(player_id) FROM players WHERE end_time IS NOT NULL
\*   AND (JULIANDAY(end_time) - JULIANDAY(start_time)) < ?
\* (a NULL start_time makes the comparison NULL, so the row is not counted)
RankCount(P, d, low) ==
    Cardinality({i \in DOMAIN P : /\ P[i].end_time # NullTime
                                  /\ P[i].start_time # NullTime
                                  /\ JulianLess(P[i], d, low)})

\* ORDER BY duration ASC: a NULL duration comes before every number.
SortKey(row) ==
    IF row.start_time = NullTime THEN 0 - (MaxClock + 1) ELSE Duration(row)

\* SQLite promises no order among rows of equal duration: they come by
\* ascending or by descending player_id.
TieOrders == {"asc", "desc"}

ComesBefore(P, i, j, ties) ==
    \/ i = j
    \/ SortKey(P[i]) < SortKey(P[j])
    \/ SortKey(P[i]) = SortKey(P[j]) /\ (IF ties = "asc" THEN i < j ELSE i > j)

\* Mutant of OrderByDuration: the rows come in the order of their player_id.
RECURSIVE OrderByPlayerId(_, _, _)
OrderByPlayerId(P, S, ties) ==
    IF S = {} THEN <<>>
    ELSE LET m == CHOOSE i \in S : \A j \in S : i <= j
         IN  <<m>> \o OrderByPlayerId(P, S \ {m}, ties)

RECURSIVE OrderByDuration(_, _, _)
OrderByDuration(P, S, ties) ==
    IF S = {} THEN <<>>
    ELSE LET m == CHOOSE i \in S : \A j \in S : ComesBefore(P, i, j, ties)
         IN  <<m>> \o OrderByDuration(P, S \ {m}, ties)

\* SELECT player_name, (JULIANDAY(end_time) - JULIANDAY(start_time)) * 86400.0
\*   AS duration FROM players WHERE end_time IS NOT NULL
\*   ORDER BY duration ASC LIMIT 10        (the rows, by player_id)
LeaderboardRows(P, ties) ==
    LET all == OrderByDuration(P, {i \in DOMAIN P : P[i].end_time # NullTime}, ties)
    IN  SubSeq(all, 1, IF Len(all) < LeaderboardLimit THEN Len(all) ELSE LeaderboardLimit)

\* Mutant of reset_database: the rows stay.
reset_database_keeps_rows(P) == P

\* reset_database(): the database file is removed and an empty table created.
\* (A request in flight keeps its connection to the removed file; here it
\* finds the empty table, as it does after a DELETE of its row.)
reset_database(P) == [i \in {} |-> NewRow(<<>>)]

\* ------------------------------------------------------------------ Init
Init ==
    /\ players = [i \in {} |-> NewRow(<<>>)]
    /\ session = [b \in Browsers |-> EmptySession]
    /\ now = 1
    /\ nextId = 1
    /\ req = [r \in Slots |-> IdleReq]

\* The clock behind CURRENT_TIMESTAMP moves on.
Tick ==
    /\ now < MaxClock
    /\ now' = now + 1
    /\ UNCHANGED <<players, session, nextId, req>>

\* ----------------------------------------------------------- POST/GET /
\* index(), lines 109-121: the checks that need no database statement.
\* q.name holds clean_player_name.
IndexChecks(q) ==
    IF q.method = "GET" THEN Done(q, "page_index")
    ELSE IF q.name = <<>> THEN Done(q, "invalid_empty")
    ELSE IF contains_profanity(q.name) THEN Done(q, "invalid_profane")
    ELSE [q EXCEPT !.pc = "index_body"]

\* index(), lines 123-132: the SELECT that looks for a row with the same name.
IndexSelect(P, q) ==
    IF q.pc # "index_body" THEN q
    ELSE IF NameTaken(P, q.name) THEN Done(q, "invalid_duplicate")
    ELSE [q EXCEPT !.pc = "index_insert"]

\* index(), lines 93-132, up to its first or second SELECT: a session that
\* names a player is looked up first; a known player is sent away, a stale
\* session is cleared.  A session with no player goes straight to the checks
\* and the SELECT by name.
index(r, b, method, form) ==
    /\ Free(r)
    /\ LET q == [Arrive(r, b, "index") EXCEPT !.method = method,
                                              !.name = Strip(form)]
       IN  Settle(r,
             IF q.player_id # NoId
             THEN IF q.player_id \in DOMAIN players
                  THEN IF players[q.player_id].end_time # NullTime
                       THEN Done(q, "redirect_leaderboard")
                       ELSE Done(q, "redirect_resume")
                  ELSE IndexChecks(Clear(q))
             ELSE IndexSelect(players, IndexChecks(q)))
    /\ UNCHANGED <<players, now, nextId>>

\* index() after a stale session was cleared: the SELECT of lines 123-132.
index_body(r) ==
    /\ req[r].pc = "index_body"
    /\ Settle(r, IndexSelect(players, req[r]))
    /\ UNCHANGED <<players, now, nextId>>

\* index(), lines 136-144: a new identifier, the session values, the INSERT.
index_insert(r) ==
    /\ req[r].pc = "index_insert"
    /\ nextId <= MaxPlayers
    /\ players' = InsertPlayer(players, nextId, req[r].name)
    /\ Settle(r, Done([req[r] EXCEPT !.player_id = nextId, !.set = "player"],
                      "redirect_start"))
    /\ nextId' = nextId + 1
    /\ UNCHANGED now

\* -------------------------------------------------------------- GET /start
\* start_game(), lines 151-162: the session check and the SELECT of
\* start_time.
start_game(r, b) ==
    /\ Free(r)
    /\ LET q == Arrive(r, b, "start_game")
       IN  Settle(r,
             IF q.player_id = NoId \/ session[b].player_name = <<>>
             THEN Done(q, "redirect_index")
             ELSE IF /\ q.player_id \in DOMAIN players
                     /\ players[q.player_id].start_time = NullTime
                  THEN [q EXCEPT !.pc = "start_update"]
                  ELSE Done(q, "page_start"))
    /\ UNCHANGED <<players, now, nextId>>

\* start_game(), lines 163-170: the UPDATE that starts the timer.
start_game_update(r) ==
    /\ req[r].pc = "start_update"
    /\ players' = StartUpdate(players, req[r].player_id, now)
    /\ Settle(r, Done(req[r], "page_start"))
    /\ UNCHANGED <<now, nextId>>

\* ------------------------------------------------------------- GET /resume
\* resume_game(): CLUES[current_clue_tag] raises KeyError for a tag that is
\* no key of CLUES.
resume_game(r, b) ==
    /\ Free(r)
    /\ LET q == Arrive(r, b, "resume_game")
       IN  Settle(r,
             IF q.player_id = NoId THEN Done(q, "redirect_index")
             ELSE IF q.player_id \notin DOMAIN players
                  THEN Done(Clear(q), "redirect_index")
             ELSE LET cur == players[q.player_id].current_clue_tag
                      current_clue_tag == IF cur = NULL THEN INITIAL_TAG ELSE cur
                  IN  IF current_clue_tag \in DOMAIN CLUES
                      THEN Done(q, "page_resume")
                      ELSE Done(q, "error_500"))
    /\ UNCHANGED <<players, now, nextId>>

\* ------------------------------------------------- GET /hunt/clue/<tag_id>
\* check_clue(), lines 234-246, with _get_player_from_session.
check_clue(r, b, tag_id) ==
    /\ Free(r)
    /\ LET q == [Arrive(r, b, "check_clue") EXCEPT !.tag = tag_id]
       IN  Settle(r,
             IF q.player_id = NoId THEN Done(q, "redirect_index")
             ELSE IF q.player_id \notin DOMAIN players
                  THEN Done(Clear(q), "redirect_index")
             ELSE IF players[q.player_id].end_time # NullTime
                  THEN Done(q, "redirect_leaderboard")
             ELSE [q EXCEPT !.pc = "scan_refetch"])
    /\ UNCHANGED <<players, now, nextId>>

\* Mutant of CheckExpected: every tag of the chain is taken as the expected
\* one.
CheckExpectedAnyTag(P, q) ==
    IF q.player_id \notin DOMAIN P THEN Done(q, "error_500")
    ELSE IF q.tag \notin DOMAIN CLUES
         THEN Done(q, "page_inactive")
    ELSE [q EXCEPT !.pc = "scan_update"]

\* check_clue(), lines 249-262: the second SELECT and the comparison with the
\* expected tag.  Subscripting the None that fetchone() returns for a row that
\* is gone raises TypeError.
CheckExpected(P, q) ==
    IF q.player_id \notin DOMAIN P THEN Done(q, "error_500")
    ELSE IF q.tag # P[q.player_id].current_clue_tag
         THEN Done(q, "page_incorrect")
    ELSE IF q.tag \notin DOMAIN CLUES
         THEN Done(q, "page_inactive")
    ELSE [q EXCEPT !.pc = "scan_update"]

check_clue_refetch(r) ==
    /\ req[r].pc = "scan_refetch"
    /\ Settle(r, CheckExpected(players, req[r]))
    /\ UNCHANGED <<players, now, nextId>>

\* check_clue(), lines 264-271, and the UPDATE of _handle_final_scan.
check_clue_update(r) ==
    /\ req[r].pc = "scan_update"
    /\ LET q           == req[r]
           next_tag_id == CLUES[q.tag].next_tag
       IN  IF next_tag_id # NULL
           THEN /\ players' = AdvanceUpdate(players, q.player_id, next_tag_id, now)
                /\ Settle(r, Done(q, "page_clue"))
           ELSE /\ players' = FinalUpdate(players, q.player_id, now)
                /\ Settle(r, [q EXCEPT !.pc = "final_times"])
    /\ UNCHANGED <<now, nextId>>

\* _handle_final_scan(), lines 217-220: the times are read back.  A row that
\* is gone, or a NULL time handed to parser.parse, raises TypeError.
handle_final_scan_times(r) ==
    /\ req[r].pc = "final_times"
    /\ LET q == req[r]
       IN  Settle(r,
             IF q.player_id \notin DOMAIN players THEN Done(q, "error_500")
             ELSE IF \/ players[q.player_id].start_time = NullTime
                     \/ players[q.player_id].end_time = NullTime
                  THEN Done(q, "error_500")
             ELSE [q EXCEPT !.pc = "final_rank",
                            !.duration = Duration(players[q.player_id])])
    /\ UNCHANGED <<players, now, nextId>>

\* _handle_final_scan(), lines 222-230: the rank query.
handle_final_scan_rank(r) ==
    /\ req[r].pc = "final_rank"
    /\ \E low \in Roundings(players, req[r].duration) :
         Settle(r, Done([req[r] EXCEPT
                           !.rank = RankCount(players, req[r].duration, low) + 1],
                        "page_final"))
    /\ UNCHANGED <<players, now, nextId>>

\* --------------------------------------------------------- GET /leaderboard
\* leaderboard(): the query and the loop over its rows; int(None) raises
\* TypeError for a row whose duration is NULL.
leaderboard(r, b) ==
    /\ Free(r)
    /\ \E ties \in TieOrders :
         LET rows == LeaderboardRows(players, ties)
             q    == [Arrive(r, b, "leaderboard") EXCEPT !.rows = rows]
         IN  Settle(r,
               IF \E k \in DOMAIN rows : players[rows[k]].start_time = NullTime
               THEN Done([q EXCEPT !.rows = <<>>], "error_500")
               ELSE Done(q, "page_leaderboard"))
    /\ UNCHANGED <<players, now, nextId>>

\* ------------------------------------------------------------------ admin
\* Mutant of admin_logged_in: every session passes for the admin's.
admin_logged_in_any(c) == TRUE

\* session.get('admin_logged_in')
admin_logged_in(c) == c.admin_logged_in

\* request.form.get('password') == ADMIN_PASSWORD
PasswordMatches(password) == password = ADMIN_PASSWORD

\* admin_dashboard(), lines 303-314; the listing of lines 316-329 changes
\* nothing.
admin_dashboard(r, b, method, password) ==
    /\ Free(r)
    /\ LET q == [Arrive(r, b, "admin_dashboard") EXCEPT !.method = method,
                                                        !.password = password]
       IN  Settle(r,
             IF method = "POST" /\ PasswordMatches(password)
             THEN Done([q EXCEPT !.set = "admin"], "redirect_dashboard")
             ELSE IF ~admin_logged_in(session[b])
                  THEN Done(q, "page_login")
                  ELSE Done(q, "page_dashboard"))
    /\ UNCHANGED <<players, now, nextId>>

admin_reset(r, b) ==
    /\ Free(r)
    /\ LET q == [Arrive(r, b, "admin_reset") EXCEPT !.method = "POST"]
       IN  IF ~admin_logged_in(session[b])
           THEN /\ Settle(r, Done(q, "unauthorized_403"))
                /\ UNCHANGED players
           ELSE /\ players' = reset_database(players)
                /\ Settle(r, Done([Clear(q) EXCEPT !.set = "admin"],
                                  "redirect_dashboard"))
    /\ UNCHANGED <<now, nextId>>

admin_remove_player(r, b, player_id) ==
    /\ Free(r)
    /\ LET q == [Arrive(r, b, "admin_remove_player") EXCEPT !.method = "POST",
                                                            !.target = player_id]
       IN  IF ~admin_logged_in(session[b])
           THEN /\ Settle(r, Done(q, "unauthorized_403"))
                /\ UNCHANGED players
           ELSE /\ players' = DeletePlayer(players, player_id)
                /\ Settle(r, Done(q, "redirect_dashboard"))
    /\ UNCHANGED <<now, nextId>>

\* admin_change_name(), lines 360-378: the checks and the SELECT.  q.name
\* holds new_name.
admin_change_name(r, b, player_id, form) ==
    /\ Free(r)
    /\ LET q == [Arrive(r, b, "admin_change_name") EXCEPT
                    !.method = "POST", !.target = player_id, !.name = Strip(form)]
       IN  Settle(r,
             IF ~admin_logged_in(session[b]) THEN Done(q, "unauthorized_403")
             ELSE IF q.name = <<>> THEN Done(q, "invalid_empty")
             ELSE IF contains_profanity(q.name) THEN Done(q, "invalid_profane")
             ELSE IF NameTakenByOther(players, q.name, player_id)
                  THEN Done(q, "invalid_duplicate")
             ELSE [q EXCEPT !.pc = "rename_update"])
    /\ UNCHANGED <<players, now, nextId>>

\* admin_change_name(), lines 380-383: the UPDATE.
admin_change_name_update(r) ==
    /\ req[r].pc = "rename_update"
    /\ players' = RenameUpdate(players, req[r].target, req[r].name)
    /\ Settle(r, Done(req[r], "redirect_dashboard"))
    /\ UNCHANGED <<now, nextId>>

\* --------------------------------------------------------------- response
\* The response has left: the slot is free again.
Respond(r) ==
    /\ req[r].pc = "done"
    /\ req' = [req EXCEPT ![r] = IdleReq]
    /\ UNCHANGED <<players, session, now, nextId>>

\* The browser drops its cookie (closed, expired, or another visitor).
ClearCookies(b) ==
    /\ session[b] # EmptySession
    /\ session' = [session EXCEPT ![b] = EmptySession]
    /\ UNCHANGED <<players, now, nextId, req>>

\* ------------------------------------------------------------------- Next
Step(r) ==
    \/ \E b \in Browsers : index(r, b, "GET", <<>>)
    \/ \E b \in Browsers, f \in FormInputs : index(r, b, "POST", f)
    \/ index_body(r)
    \/ index_insert(r)
    \/ \E b \in Browsers : start_game(r, b)
    \/ start_game_update(r)
    \/ \E b \in Browsers : resume_game(r, b)
    \/ \E b \in Browsers, t \in ScanInputs : check_clue(r, b, t)
    \/ check_clue_refetch(r)
    \/ check_clue_update(r)
    \/ handle_final_scan_times(r)
    \/ handle_final_scan_rank(r)
    \/ \E b \in Browsers : leaderboard(r, b)
    \/ \E b \in Browsers : admin_dashboard(r, b, "GET", "")
    \/ \E b \in Browsers, p \in Passwords : admin_dashboard(r, b, "POST", p)
    \/ \E b \in Browsers : admin_reset(r, b)
    \/ \E b \in Browsers, id \in Ids : admin_remove_player(r, b, id)
    \/ \E b \in Browsers, id \in Ids, f \in FormInputs : admin_change_name(r, b, id, f)
    \/ admin_change_name_update(r)
    \/ Respond(r)

Environment == Tick \/ \E b \in Browsers : ClearCookies(b)

\* Requests of all slots interleave.
Next == (\E r \in Slots : Step(r)) \/ Environment

Spec == Init /\ [][Next]_vars

\* One request at a time: every request runs to its response before the
\* next one arrives.
NextSeq == Step(1) \/ Environment

SpecSeq == Init /\ [][NextSeq]_vars

\* ------------------------------------------------- the leaderboard alone
\* The leaderboard asked of tables of up to BoardRows rows.  Row i is in
\* progress (kind 0) or finished at second kind, all timers started at
\* second 1; the kinds repeat after PatternLen rows.
BoardRow(i, kind) ==
    [player_name      |-> [j \in 1..i |-> "x"],
     current_clue_tag |-> IF kind = 0 THEN INITIAL_TAG ELSE FINISHED,
     last_scan_time   |-> kind,
     start_time       |-> 1,
     end_time         |-> kind]

BoardTables ==
    {[i \in 1..n |-> BoardRow(i, pattern[((i - 1) % PatternLen) + 1])] :
        n \in 0..BoardRows, pattern \in [1..PatternLen -> 0..MaxClock]}

InitBoard ==
    /\ players \in BoardTables
    /\ session = [b \in Browsers |-> EmptySession]
    /\ now = MaxClock
    /\ nextId = BoardRows + 1
    /\ req = [r \in Slots |-> IdleReq]

NextBoard == (\E b \in Browsers : leaderboard(1, b)) \/ Respond(1)

SpecBoard == InitBoard /\ [][NextBoard]_vars

\* ================================================================ claims
\* The handler of slot r returns, or moves on, in this step.
Acts(r) == req[r].pc \notin {"idle", "done"} /\ req'[r] # req[r]

\* The request of slot r is a scan of the tag its player's row expects, on
\* a row whose timer runs.
ExpectedScan(r) ==
    /\ req[r].kind = "check_clue"
    /\ req[r].player_id \in DOMAIN players
    /\ players[req[r].player_id].start_time # NullTime
    /\ req[r].tag \in Tags
    /\ req[r].tag = players[req[r].player_id].current_clue_tag

\* C1: with one request at a time, a scan of the tag the row expects is
\* accepted, and its UPDATE moves current_clue_tag to exactly the next tag of
\* the scanned tag (leaving end_time NULL) or, for the last tag of the chain,
\* to FINISHED with end_time set and end_time >= start_time; so a player who
\* scans the chain in its order passes every tag and ends FINISHED.
C1_ChainInOrder ==
    [][\A r \in Slots :
        (ExpectedScan(r) /\ Acts(r)) =>
            LET p    == req[r].player_id
                next == CLUES[req[r].tag].next_tag
            IN  CASE req[r].pc = "scan_refetch" ->
                       req'[r].pc = "scan_update" /\ players' = players
                  [] req[r].pc = "scan_update" ->
                       /\ p \in DOMAIN players'
                       /\ players'[p].start_time = players[p].start_time
                       /\ IF next # NULL
                          THEN /\ players'[p].current_clue_tag = next
                               /\ players'[p].end_time = NullTime
                          ELSE /\ players'[p].current_clue_tag = FINISHED
                               /\ players'[p].end_time # NullTime
                               /\ players'[p].end_time >= players'[p].start_time
                  [] OTHER -> TRUE]_vars

\* C1 witness: a final scan returned, its player FINISHED with an end_time
\* later than the start_time.
C1_Witness ==
    \E r \in Slots :
        /\ req[r].pc = "done" /\ req[r].outcome = "page_final"
        /\ req[r].player_id \in DOMAIN players
        /\ players[req[r].player_id].current_clue_tag = FINISHED
        /\ players[req[r].player_id].end_time > players[req[r].player_id].start_time

\* C2: with one request at a time, a step of a scan request changes the
\* players table only if, right before it, the player's row exists with
\* end_time NULL, the scanned tag equal to its current_clue_tag, and the
\* scanned tag a key of CLUES.
C2_ScanFrame ==
    [][\A r \in Slots :
        ( /\ req'[r] # req[r]
          /\ req[r].kind = "check_clue" \/ req'[r].kind = "check_clue"
          /\ players' # players )
        => /\ req[r].kind = "check_clue"
           /\ req[r].player_id \in DOMAIN players
           /\ players[req[r].player_id].end_time = NullTime
           /\ req[r].tag = players[req[r].player_id].current_clue_tag
           /\ req[r].tag \in DOMAIN CLUES]_vars

\* C2 witness: a player whose timer has not started scanned the second tag
\* of the chain; the scan returned and the row still has start_time NULL.
C2_Witness ==
    \E r \in Slots :
        /\ req[r].pc = "done" /\ req[r].kind = "check_clue"
        /\ req[r].outcome = "page_incorrect"
        /\ req[r].tag = CLUES[INITIAL_TAG].next_tag
        /\ req[r].player_id \in DOMAIN players
        /\ players[req[r].player_id].start_time = NullTime

\* The request of slot r is a scan of the first tag by a player whose
\* start_time is NULL.
FirstTagScanBeforeStart(r) ==
    /\ req[r].kind = "check_clue"
    /\ req[r].tag = INITIAL_TAG
    /\ req[r].player_id \in DOMAIN players
    /\ players[req[r].player_id].start_time = NullTime

\* C3 as claimed: when the scan of the first tag by a player whose start_time
\* is NULL returns, start_time and last_scan_time are set and current_clue_tag
\* is the first tag.
C3_ScanStartsGame ==
    [][\A r \in Slots :
        (FirstTagScanBeforeStart(r) /\ Acts(r) /\ req'[r].pc \in {"done", "idle"})
        => LET p == req[r].player_id
           IN  /\ p \in DOMAIN players'
               /\ players'[p].start_time # NullTime
               /\ players'[p].last_scan_time # NullTime
               /\ players'[p].current_clue_tag = INITIAL_TAG]_vars

\* C3 amended: with one request at a time, the scan of the first tag by a
\* player whose start_time is NULL is answered as an incorrect scan and
\* changes no row; it is the UPDATE of GET /start that sets start_time to the
\* time of the request and current_clue_tag to the first tag, and it leaves
\* last_scan_time NULL.
C3_StartStartsGame ==
    [][\A r \in Slots :
        /\ (FirstTagScanBeforeStart(r) /\ Acts(r))
           => /\ req'[r].pc = "done" /\ req'[r].outcome = "page_incorrect"
              /\ players' = players
        /\ ( /\ req[r].pc = "start_update" /\ Acts(r)
             /\ req[r].player_id \in DOMAIN players )
           => LET p == req[r].player_id
              IN  /\ p \in DOMAIN players'
                  /\ players'[p].start_time = now
                  /\ players'[p].current_clue_tag = INITIAL_TAG
                  /\ players'[p].last_scan_time = NullTime
                  /\ players'[p].end_time = NullTime]_vars

\* C3 witness: the scan of the first tag returned as an incorrect scan and
\* the row's start_time is still NULL.
C3_Witness ==
    \E r \in Slots :
        /\ req[r].pc = "done" /\ req[r].kind = "check_clue"
        /\ req[r].tag = INITIAL_TAG /\ req[r].outcome = "page_incorrect"
        /\ req[r].player_id \in DOMAIN players
        /\ players[req[r].player_id].start_time = NullTime
        /\ players[req[r].player_id].current_clue_tag = NULL

\* C4 as claimed: once a row's start_time is set, no step changes it.
C4_StartTimeWriteOnce ==
    [][\A p \in DOMAIN players :
        (players[p].start_time # NullTime /\ p \in DOMAIN players')
        => players'[p].start_time = players[p].start_time]_vars

\* C5 as claimed: of two scans of the same expected tag only one updates the
\* row: the UPDATE of a scan is applied only to a row that still expects the
\* scanned tag and has no end_time yet, so that last_scan_time and end_time
\* are written once for the tag.
C5_OneAdvancePerTag ==
    [][\A r \in Slots :
        ( /\ req[r].pc = "scan_update" /\ Acts(r)
          /\ req[r].player_id \in DOMAIN players )
        => /\ players[req[r].player_id].current_clue_tag = req[r].tag
           /\ players[req[r].player_id].end_time = NullTime]_vars

\* C6 as claimed: in every reachable state each row has
\* current_clue_tag = FINISHED if and only if its end_time is set.
C6_FinishedIffEndTime ==
    \A p \in DOMAIN players :
        (players[p].current_clue_tag = FINISHED) <=> (players[p].end_time # NullTime)

\* C7 as claimed: in every reachable state each row whose end_time is set has
\* its start_time set and end_time >= start_time.
C7_EndAfterStart ==
    \A p \in DOMAIN players :
        players[p].end_time # NullTime
        => /\ players[p].start_time # NullTime
           /\ players[p].end_time >= players[p].start_time

\* The place of a value of current_clue_tag on the way NULL, first tag, ...,
\* last tag, FINISHED.
Pos(tag) ==
    IF tag = NULL THEN 0
    ELSE IF tag = FINISHED THEN NumTags + 1
    ELSE CHOOSE i \in 1..NumTags : TagNames[i] = tag

\* C8 as claimed: every change of a row's current_clue_tag moves it exactly
\* one place forward on the way NULL, first tag, ..., last tag, FINISHED.
C8_OnePlaceForward ==
    [][\A p \in DOMAIN players :
        ( /\ p \in DOMAIN players'
          /\ players'[p].current_clue_tag # players[p].current_clue_tag )
        => Pos(players'[p].current_clue_tag) = Pos(players[p].current_clue_tag) + 1]_vars

\* C9 as claimed: in every reachable state no two rows have the same
\* player_name.
C9_UniqueNames ==
    \A i, j \in DOMAIN players :
        i # j => players[i].player_name # players[j].player_name

\* A name that passes the checks of the form field.
ValidName(n) == n # <<>> /\ ~contains_profanity(n)

\* C10 as claimed: a registration POST with a valid name that no row uses
\* creates a row, whatever the session holds: a POST that returned without
\* creating a row had a name that a row uses.
C10_EveryValidPostCreates ==
    \A r \in Slots :
        ( /\ req[r].pc = "done" /\ req[r].kind = "index" /\ req[r].method = "POST"
          /\ ValidName(req[r].name)
          /\ req[r].outcome # "redirect_start" )
        => NameTaken(players, req[r].name)

\* The request arriving in slot r in this step is a registration POST.
PostArrives(r) ==
    /\ req[r].pc = "idle" /\ req'[r].kind = "index" /\ req'[r].method = "POST"

\* C10 amended: with one request at a time, a registration POST with a valid
\* name that no row uses, made with a session that names no existing row (no
\* player, or a removed one), goes on to the INSERT, and the INSERT creates
\* exactly one row, with NULL start_time, end_time and current_clue_tag, whose
\* id becomes the session's player_id; a POST made with a session that names
\* an existing row is redirected and creates no row.
C10_FreshPostCreates ==
    [][\A r \in Slots :
        /\ ( /\ PostArrives(r)
             /\ ValidName(req'[r].name) /\ ~NameTaken(players, req'[r].name)
             /\ session[req'[r].browser].player_id \notin DOMAIN players )
           => /\ req'[r].pc \in {"index_body", "index_insert"}
              /\ players' = players
        /\ ( /\ PostArrives(r)
             /\ session[req'[r].browser].player_id \in DOMAIN players )
           => /\ req'[r].outcome \in {"redirect_resume", "redirect_leaderboard"}
              /\ players' = players /\ session' = session
        /\ ( /\ req[r].pc = "index_body" /\ Acts(r)
             /\ ~NameTaken(players, req[r].name) )
           => req'[r].pc = "index_insert" /\ players' = players
        /\ (req[r].pc = "index_insert" /\ Acts(r))
           => LET id == req'[r].player_id
              IN  /\ id \notin DOMAIN players
                  /\ DOMAIN players' = DOMAIN players \cup {id}
                  /\ players'[id] = NewRow(req[r].name)
                  /\ \A i \in DOMAIN players : players'[i] = players[i]
                  /\ session'[req[r].browser].player_id = id
                  /\ req'[r].outcome = "redirect_start"]_vars

\* C10 witness: a registration made with a session that named a removed
\* player returned; the session names the new row, which has no times and no
\* tag.
C10_Witness ==
    \E r \in Slots :
        /\ req[r].pc = "done" /\ req[r].kind = "index"
        /\ req[r].outcome = "redirect_start"
        /\ req[r].player_id > 1
        /\ 1 \notin DOMAIN players
        /\ session[req[r].browser].player_id = req[r].player_id
        /\ req[r].player_id \in DOMAIN players
        /\ players[req[r].player_id] = NewRow(req[r].name)

\* The request arriving in slot r in this step is a rename, sent with a
\* session that has the admin flag.
AdminRenameArrives(r) ==
    /\ req[r].pc = "idle" /\ req'[r].kind = "admin_change_name"
    /\ session[req'[r].browser].admin_logged_in

\* C11: a rename sent by the admin whose new name is held by a row other
\* than the target, or is empty or profane after stripping, is turned down
\* at once and changes no field of any row.
C11_RejectedRenameChangesNothing ==
    [][\A r \in Slots :
        AdminRenameArrives(r) =>
          LET n == req'[r].name
          IN  /\ (\E i \in DOMAIN players :
                     i # req'[r].target /\ players[i].player_name = n)
                 => /\ req'[r].pc = "done"
                    /\ req'[r].outcome \in {"invalid_duplicate", "invalid_empty",
                                            "invalid_profane"}
                    /\ players' = players
              /\ (n = <<>> \/ \E k \in DOMAIN n : n[k] \in DUTCH_PROFANITY_LIST)
                 => /\ req'[r].pc = "done"
                    /\ req'[r].outcome \in {"invalid_empty", "invalid_profane"}
                    /\ players' = players]_vars

\* C11 witness: the rename of one player to the name of another was turned
\* down; both rows are there with their different names.
C11_Witness ==
    \E r \in Slots :
        /\ req[r].pc = "done" /\ req[r].kind = "admin_change_name"
        /\ req[r].outcome = "invalid_duplicate"
        /\ req[r].target \in DOMAIN players
        /\ players[req[r].target].player_name # req[r].name
        /\ \E i \in DOMAIN players :
              i # req[r].target /\ players[i].player_name = req[r].name

\* The finished rows other than p whose duration is strictly smaller than
\* the duration of p, the times taken as the whole seconds they are.
StrictlyFaster(p) ==
    {i \in DOMAIN players \ {p} :
        /\ players[i].end_time # NullTime
        /\ players[i].end_time - players[i].start_time
             < players[p].end_time - players[p].start_time}

\* C12 as claimed: the rank that a final scan returns is 1 + the number of
\* finished rows whose duration is strictly smaller than the player's own;
\* the player's own row is not counted.
C12_RankCountsStrictlyFaster ==
    [][\A r \in Slots :
        ( /\ req[r].pc = "final_rank" /\ Acts(r)
          /\ req[r].player_id \in DOMAIN players )
        => req'[r].rank = 1 + Cardinality(StrictlyFaster(req[r].player_id))]_vars

\* The finished rows other than p whose duration equals the duration of p.
EquallyFast(p) ==
    {i \in DOMAIN players \ {p} :
        /\ players[i].end_time # NullTime
        /\ players[i].end_time - players[i].start_time
             = players[p].end_time - players[p].start_time}

\* The rank query of slot r runs for a player who ties with an earlier
\* finisher while nobody is strictly faster.
TieForFastest(r) ==
    /\ req[r].pc = "final_rank" /\ Acts(r)
    /\ req[r].player_id \in DOMAIN players
    /\ EquallyFast(req[r].player_id) # {}
    /\ StrictlyFaster(req[r].player_id) = {}

\* C13 as claimed: a player who ties with an earlier finisher, nobody being
\* strictly faster, is given rank 2.
C13_TieGivesRankTwo ==
    [][\A r \in Slots : TieForFastest(r) => req'[r].rank = 2]_vars

\* C13 amended: a player who ties with an earlier finisher, nobody being
\* strictly faster, is given rank 1 when the tied duration is 0 seconds (the
\* query counts strictly smaller durations only), and for other durations a
\* rank from 1 to 1 + the number of finished rows of that duration, the
\* player's own included, as the comparison of doubles falls.
C13_TieGivesRankOneOrMore ==
    [][\A r \in Slots :
        TieForFastest(r) =>
          LET p == req[r].player_id
          IN  /\ req'[r].rank >= 1
              /\ req'[r].rank <= 2 + Cardinality(EquallyFast(p))
              /\ players[p].end_time = players[p].start_time => req'[r].rank = 1]_vars

\* C13 witness: a final scan returned rank 1 to a player whose duration
\* equals that of another finished row.
C13_Witness ==
    \E r \in Slots :
        /\ req[r].pc = "done" /\ req[r].outcome = "page_final"
        /\ req[r].rank = 1
        /\ req[r].player_id \in DOMAIN players
        /\ EquallyFast(req[r].player_id) # {}

\* The rows with an end_time, and the duration of a row in whole seconds.
FinishedRows == {i \in DOMAIN players : players[i].end_time # NullTime}

Seconds(i) == players[i].end_time - players[i].start_time

\* C14: the listing a leaderboard request returns holds finished rows only,
\* each once, min(10, number of finished rows) of them, in the order of
\* non-decreasing duration, and no finished row left out of it is faster
\* than a row in it.
C14_LeaderboardTopTen ==
    \A r \in Slots :
        (req[r].pc = "done" /\ req[r].kind = "leaderboard")
        => LET L == req[r].rows
               n == Cardinality(FinishedRows)
           IN  /\ req[r].outcome = "page_leaderboard"
               /\ \A k \in DOMAIN L : L[k] \in FinishedRows
               /\ \A k, m \in DOMAIN L : k # m => L[k] # L[m]
               /\ Len(L) = IF n < 10 THEN n ELSE 10
               /\ \A k, m \in DOMAIN L : k < m => Seconds(L[k]) <= Seconds(L[m])
               /\ \A i \in FinishedRows \ {L[k] : k \in DOMAIN L} :
                     \A k \in DOMAIN L : Seconds(L[k]) <= Seconds(i)

\* C14 witness: a listing of 10 rows was returned from a table with more
\* than 10 finished rows of different durations and with a row in progress.
C14_Witness ==
    \E r \in Slots :
        /\ req[r].pc = "done" /\ req[r].kind = "leaderboard"
        /\ Len(req[r].rows) = 10
        /\ Cardinality(FinishedRows) > 10
        /\ DOMAIN players # FinishedRows
        /\ \E i, j \in FinishedRows : Seconds(i) # Seconds(j)

\* The request arriving in slot r in this step is one of the three admin
\* mutations, sent with a session that has no admin flag.
UnflaggedMutationArrives(r) ==
    /\ req[r].pc = "idle"
    /\ req'[r].kind \in {"admin_reset", "admin_remove_player", "admin_change_name"}
    /\ ~session[req'[r].browser].admin_logged_in

\* C15: an admin mutation sent with a session that has no admin flag is
\* answered 403 at once and changes neither the players table nor the
\* session; and the admin flag of a session comes on only in the step in
\* which a POST to the dashboard with exactly the password "bruinvis"
\* returns.
C15_AdminFlagGuards ==
    [][/\ \A r \in Slots :
            UnflaggedMutationArrives(r)
            => /\ req'[r].pc = "done" /\ req'[r].outcome = "unauthorized_403"
               /\ players' = players /\ session' = session
       /\ \A b \in Browsers :
            (session'[b].admin_logged_in /\ ~session[b].admin_logged_in)
            => \E r \in Slots :
                 /\ req[r].pc = "idle" /\ req'[r].pc = "done"
                 /\ req'[r].browser = b
                 /\ req'[r].kind = "admin_dashboard" /\ req'[r].method = "POST"
                 /\ req'[r].password = "bruinvis"]_vars

\* C15 witness: the removal of an existing player, asked with a session
\* without the admin flag, was answered 403 and the row is still there.
C15_Witness ==
    \E r \in Slots :
        /\ req[r].pc = "done" /\ req[r].kind = "admin_remove_player"
        /\ req[r].outcome = "unauthorized_403"
        /\ req[r].target \in DOMAIN players
        /\ ~session[req[r].browser].admin_logged_in

\* C16: a reset sent with a session that has the admin flag leaves the
\* players table without rows, whatever it held; a leaderboard request
\* that finds no row with an end_time returns an empty listing; and a row
\* gets an end_time only by the UPDATE of a scan, that is, by a player who
\* finishes.
C16_ResetEmptiesStore ==
    [][/\ \A r \in Slots :
            ( /\ req[r].pc = "idle" /\ req'[r].kind = "admin_reset"
              /\ session[req'[r].browser].admin_logged_in )
            => /\ DOMAIN players' = {}
               /\ req'[r].pc = "done" /\ req'[r].outcome = "redirect_dashboard"
       /\ \A r \in Slots :
            ( /\ req[r].pc = "idle" /\ req'[r].kind = "leaderboard"
              /\ \A i \in DOMAIN players : players[i].end_time = NullTime )
            => /\ req'[r].rows = <<>>
               /\ req'[r].outcome = "page_leaderboard"
       /\ \A i \in DOMAIN players' :
            ( /\ players'[i].end_time # NullTime
              /\ i \in DOMAIN players => players[i].end_time = NullTime )
            => \E r \in Slots : req[r].pc = "scan_update" /\ req[r].player_id = i
      ]_vars

\* C16 witness: a reset returned after every identifier had been given to a
\* row; the table is empty, and the session holds the admin flag and no
\* player.
C16_Witness ==
    \E r \in Slots :
        /\ req[r].pc = "done" /\ req[r].kind = "admin_reset"
        /\ req[r].outcome = "redirect_dashboard"
        /\ nextId = MaxPlayers + 1
        /\ DOMAIN players = {}
        /\ session[req[r].browser].admin_logged_in
        /\ session[req[r].browser].player_id = NoId

\* The request arriving in slot r in this step is a player's GET /, GET
\* /start, GET /resume or a scan, sent with a session that names a player
\* whose row is gone.
StaleRequestArrives(r) ==
    /\ req[r].pc = "idle"
    /\ \/ req'[r].kind = "index" /\ req'[r].method = "GET"
       \/ req'[r].kind \in {"start_game", "resume_game", "check_clue"}
    /\ session[req'[r].browser].player_id # NoId
    /\ session[req'[r].browser].player_id \notin DOMAIN players

\* C17 as claimed: a player's request sent with a session that names a
\* removed row changes no row, takes the player_id out of the session, and
\* is answered with the registration page or a redirect to it, never with
\* the start page or a clue.
C17_StaleSessionCleared ==
    [][\A r \in Slots :
        StaleRequestArrives(r)
        => /\ players' = players
           /\ req'[r].pc = "done"
           /\ req'[r].outcome \in {"redirect_index", "page_index"}
           /\ session'[req'[r].browser].player_id = NoId]_vars

\* C18: in every reachable state, with the requests of all slots
\* interleaved, each row has start_time NULL if and only if its
\* current_clue_tag is NULL.
C18_StartTimeIffTag ==
    \A p \in DOMAIN players :
        (players[p].start_time = NullTime) <=> (players[p].current_clue_tag = NULL)

\* C18 witness: a scan of the first tag is about to run its UPDATE while a
\* GET /start of the same player, which read start_time NULL before the
\* timer was started, is about to run its own; a second row is registered
\* and not started.
C18_Witness ==
    \E r, o \in Slots :
        /\ req[r].pc = "scan_update" /\ req[o].pc = "start_update"
        /\ req[r].player_id = req[o].player_id
        /\ req[r].player_id \in DOMAIN players
        /\ players[req[r].player_id].start_time # NullTime
        /\ \E i \in DOMAIN players : players[i] = NewRow(players[i].player_name)

\* The handlers a player's browser calls.
PlayerFacing == {"index", "start_game", "resume_game", "check_clue"}

\* C19: with the requests of all slots interleaved, a step of a player's
\* request deletes no row, changes no row other than the one its session
\* names, and inserts no row other than the one its session names
\* afterwards; the step in which such a request arrives writes nothing.
C19_OwnRowOnly ==
    [][\A r \in Slots :
        /\ (req[r].pc = "idle" /\ req'[r].kind \in PlayerFacing)
           => players' = players
        /\ ( /\ req[r].kind \in PlayerFacing
             /\ req[r].pc \notin {"idle", "done"}
             /\ req'[r] # req[r] )
           => /\ DOMAIN players \subseteq DOMAIN players'
              /\ \A i \in DOMAIN players :
                    players'[i] # players[i] => i = req[r].player_id
              /\ \A i \in DOMAIN players' \ DOMAIN players :
                    /\ req[r].kind = "index"
                    /\ session'[req[r].browser].player_id = i]_vars

\* C19 witness: a final scan returned to a player while the row of another
\* player, not finished, is in the table.
C19_Witness ==
    \E r \in Slots :
        /\ req[r].pc = "done" /\ req[r].kind = "check_clue"
        /\ req[r].outcome = "page_final"
        /\ \E i \in DOMAIN players :
              i # req[r].player_id /\ players[i].end_time = NullTime

\* C20 as claimed: no request of a player ends in an unhandled exception.
C20_NoUnhandledFailure ==
    \A r \in Slots :
        (req[r].pc = "done" /\ req[r].kind \in PlayerFacing)
        => req[r].outcome # "error_500"

====
